---- MODULE Spec2Model ----
(***************************************************************************)
(* Model of main.c, the firmware of the attiny85 one-button skate dryer.   *)
(*                                                                         *)
(* One hardware thread runs main(): init(), blink(5), then loop() forever. *)
(* Three interrupt handlers preempt it between any two of its accesses to  *)
(* the variables they share with it; a handler itself runs to completion   *)
(* (AVR clears the global interrupt flag while a handler runs).            *)
(*                                                                         *)
(* The main thread is cut into steps at its accesses to the variables the  *)
(* handlers read or write (desired_run_state, run_timers, ui_timers,       *)
(* buffered_clicks, sleeping).  Writes to variables only the main thread   *)
(* touches (ui_state, current_run_state, the two output pins, the locals)  *)
(* are attached to the neighbouring step: no handler can observe them.     *)
(***************************************************************************)
EXTENDS Integers, FiniteSets, Sequences, TLC

\* ---- constants of main.c ------------------------------------------------
IDLE_ITERATIONS == 255
TIMER_UI_COUNT == 1
RUN_TIMERS_INIT == 20
RUN_TIMERS_MULTIPLIER == 20
RUN_LEVELS == 3

\* run_state_t
RUN_NO_STATE == 0
RUN_OFF == 1
RUN_SHORT == 2
RUN_MED == 3
RUN_LONG == 4

\* ui_state_t
UI_OFF == "UI_OFF"
UI_INPUT == "UI_INPUT"
UI_TIMEOUT == "UI_TIMEOUT"

\* number of values of a uint8_t (inactive_iterations, buffered_clicks)
UINT8_RANGE == 256
\* argument of the start-up blink in main()
HELLO_BLINKS == 5

\* ---- bounds of the model ------------------------------------------------
\* presses the button handler may take between two resets of buffered_clicks
MaxClicks == 5
\* presses already counted in the initial state of SpecBurst
BurstBase == 253

\* saturation value of the history counter idle_run
IdleCap == IDLE_ITERATIONS + 2

VARIABLES
  \* globals of main.c
  inactive_iterations, current_run_state, desired_run_state, run_timers,
  ui_timers, sleeping, ui_state, buffered_clicks,
  \* PORTB bits FAN_PIN and LED_PIN
  fan, led,
  \* position of the main thread and its live locals
  pc, active, local_clicks, run_level, blink_n, blink_i, blink_ret,
  \* history variables (no step of the program depends on them; budget
  \* bounds the presses the model takes)
  presses,   \* presses counted since buffered_clicks was last zeroed
  budget,    \* presses the model still allows before the next zeroing
  n_read,    \* value of presses when ui_handler read buffered_clicks
  acks,      \* LED pulses emitted since the Timeout handling began
  req,       \* request written by ui_handler at Timeout, until polled:
             \* the value written, the presses read, current_run_state
             \* and run_timers > 0 at the write, the presses zeroed unread
  win_idle,  \* the open input window was opened with the fan idle
  quiet,     \* fan started with no press pending, none counted since
  idle_run,  \* consecutive iterations that reported inactive
  polled,    \* outcome of the run_state_handler poll just returned
  woke       \* woken from sleep by a press, no interrupt of INT0 since

prog == <<inactive_iterations, current_run_state, desired_run_state,
          run_timers, ui_timers, sleeping, ui_state, buffered_clicks,
          fan, led>>
ctl == <<pc, active, local_clicks, run_level, blink_n, blink_i, blink_ret>>
hist == <<presses, budget, n_read, acks, req, win_idle, quiet, idle_run,
          polled, woke>>
vars == <<prog, ctl, hist>>

Min(a, b) == IF a < b THEN a ELSE b

OnStates == {RUN_SHORT, RUN_MED, RUN_LONG}

NoReq == [lvl |-> RUN_NO_STATE, n |-> 0, cur |-> RUN_NO_STATE, run |-> FALSE,
          late |-> 0]

\* ---- initial states -----------------------------------------------------
\* the globals as init() leaves them, the locals and history at rest
Reset ==
  /\ inactive_iterations = 0
  /\ current_run_state = RUN_OFF
  /\ desired_run_state = RUN_NO_STATE
  /\ run_timers = 0
  /\ ui_timers = -1
  /\ ui_state = UI_OFF
  /\ fan = FALSE
  /\ led = FALSE
  /\ active = FALSE
  /\ local_clicks = 0
  /\ run_level = 0
  /\ n_read = 0
  /\ acks = 0
  /\ req = NoReq
  /\ win_idle = FALSE
  /\ quiet = FALSE
  /\ woke = FALSE
  /\ polled = "none"
  /\ budget = MaxClicks

\* main() after init(), about to call blink(5)
Init ==
  /\ Reset
  /\ sleeping = FALSE
  /\ buffered_clicks = 0
  /\ presses = 0
  /\ idle_run = 0
  /\ pc = "blink"
  /\ blink_n = HELLO_BLINKS
  /\ blink_i = 0
  /\ blink_ret = "rs_test"

\* the first call of loop() when BurstBase presses were counted during the
\* start-up blink (interrupts are enabled by init(), before blink(5))
InitBurst ==
  /\ Reset
  /\ sleeping = FALSE
  /\ buffered_clicks = BurstBase % UINT8_RANGE
  /\ presses = BurstBase
  /\ idle_run = 0
  /\ pc = "rs_test"
  /\ blink_n = 0
  /\ blink_i = 0
  /\ blink_ret = "rs_test"

\* the state sleep() waits in: sleeping set, the CPU halted in sleep_mode().
\* No behaviour of Spec gets here (SleepDue is never true of a uint8_t), so
\* what sleep() and the wake-up do is examined from this state, in SpecWake.
InitAsleep ==
  /\ Reset
  /\ sleeping = TRUE
  /\ buffered_clicks = 0
  /\ presses = 0
  /\ idle_run = IDLE_ITERATIONS + 1
  /\ pc = "sl_mode"
  /\ blink_n = 0
  /\ blink_i = 0
  /\ blink_ret = "rs_test"

\* ---- interrupt handlers -------------------------------------------------
\* the timers are stopped while the CPU is in power-down
TimersRun == pc # "sl_mode"

\* if (run_timers > 0) run_timers--;
RunTimerTick(t) == IF t > 0 THEN t - 1 ELSE t

\* mutant: the expiry clears the request instead of asking for Off
ExpiryRequest_Sentinel(t, desired) ==
  IF t > 0 /\ t - 1 = 0 THEN RUN_NO_STATE ELSE desired

\* mutant: run_timers tested for zero before it is decremented
ExpiryRequest_BeforeDecrement(t, desired) ==
  IF t > 0 /\ t = 0 THEN RUN_OFF ELSE desired

\* if the decrement brought run_timers to zero: desired_run_state = RUN_OFF
ExpiryRequest(t, desired) ==
  IF t > 0 /\ RunTimerTick(t) = 0 THEN RUN_OFF ELSE desired

TIMER1_OVF ==
  /\ TimersRun
  /\ run_timers' = RunTimerTick(run_timers)
  /\ desired_run_state' = ExpiryRequest(run_timers, desired_run_state)
  /\ UNCHANGED <<inactive_iterations, current_run_state, ui_timers, sleeping,
                 ui_state, buffered_clicks, fan, led, ctl, hist>>

\* mutant: the zero of an expired input timer is decremented too
UiTimerTick_Inclusive(t) == IF t >= 0 THEN t - 1 ELSE t

\* if (ui_timers > 0) ui_timers--;
UiTimerTick(t) == IF t > 0 THEN t - 1 ELSE t

TIMER0_OVF ==
  /\ TimersRun
  /\ ui_timers' = UiTimerTick(ui_timers)
  /\ UNCHANGED <<inactive_iterations, current_run_state, desired_run_state,
                 run_timers, sleeping, ui_state, buffered_clicks, fan, led,
                 ctl, hist>>

\* if (!sleeping) buffered_clicks += 1; on a uint8_t
CountClick(asleep, clicks) ==
  IF ~asleep THEN (clicks + 1) % UINT8_RANGE ELSE clicks

\* a press: the handler counts it unless sleeping is set; a press that finds
\* the CPU halted in sleep_mode() resumes the main thread after the handler
INT0 ==
  /\ budget > 0
  /\ budget' = budget - 1
  /\ buffered_clicks' = CountClick(sleeping, buffered_clicks)
  /\ presses' = IF ~sleeping THEN presses + 1 ELSE presses
  /\ quiet' = IF ~sleeping THEN FALSE ELSE quiet
  /\ woke' = (pc = "sl_mode")
  /\ pc' = IF pc = "sl_mode" THEN "sl_wake" ELSE pc
  /\ UNCHANGED <<inactive_iterations, current_run_state, desired_run_state,
                 run_timers, ui_timers, sleeping, ui_state, fan, led,
                 active, local_clicks, run_level, blink_n, blink_i, blink_ret,
                 n_read, acks, req, win_idle, idle_run, polled>>

\* ---- blink(n) -----------------------------------------------------------
\* loop test true: led_off(); delay; led_on()
blink_pulse ==
  /\ pc = "blink"
  /\ blink_i < blink_n
  /\ led' = TRUE
  /\ acks' = acks + 1
  /\ pc' = "blink_lit"
  /\ UNCHANGED <<inactive_iterations, current_run_state, desired_run_state,
                 run_timers, ui_timers, sleeping, ui_state, buffered_clicks,
                 fan, active, local_clicks, run_level, blink_n, blink_i,
                 blink_ret, presses, budget, n_read, req, win_idle, quiet,
                 idle_run, polled, woke>>

\* delay; led_off(); i++
blink_dark ==
  /\ pc = "blink_lit"
  /\ led' = FALSE
  /\ blink_i' = blink_i + 1
  /\ pc' = "blink"
  /\ UNCHANGED <<inactive_iterations, current_run_state, desired_run_state,
                 run_timers, ui_timers, sleeping, ui_state, buffered_clicks,
                 fan, active, local_clicks, run_level, blink_n, blink_ret,
                 hist>>

\* loop test false: return to the caller
blink_return ==
  /\ pc = "blink"
  /\ blink_i >= blink_n
  /\ pc' = blink_ret
  /\ blink_n' = 0
  /\ blink_i' = 0
  /\ blink_ret' = "rs_test"
  /\ acks' = IF blink_ret = "rs_test" THEN 0 ELSE acks
  /\ UNCHANGED <<prog, active, local_clicks, run_level, presses, budget,
                 n_read, req, win_idle, quiet, idle_run, polled, woke>>

\* ---- run_state_handler() ------------------------------------------------
\* if (desired_run_state == RUN_NO_STATE) return current_run_state > RUN_OFF;
\* mutant: an idle fan reported as active
NoRequestActive_Inclusive(current) == current >= RUN_OFF

\* the value returned when there is no request
NoRequestActive(current) == current > RUN_OFF

\* mutant: the request tested against the wrong enumerator
NoRequest_Off(desired) == desired = RUN_OFF

\* if (desired_run_state == RUN_NO_STATE)
NoRequest(desired) == desired = RUN_NO_STATE

rs_test ==
  /\ pc = "rs_test"
  /\ IF NoRequest(desired_run_state)
     THEN /\ active' = NoRequestActive(current_run_state)
          /\ pc' = "ui_read"
          /\ polled' = "noop"
     ELSE /\ pc' = "rs_copy"
          /\ UNCHANGED <<active, polled>>
  /\ UNCHANGED <<prog, local_clicks, run_level, blink_n, blink_i, blink_ret,
                 presses, budget, n_read, acks, req, win_idle, quiet,
                 idle_run, woke>>

\* current_run_state = desired_run_state;
rs_copy ==
  /\ pc = "rs_copy"
  /\ current_run_state' = desired_run_state
  /\ pc' = "rs_clear"
  /\ UNCHANGED <<inactive_iterations, desired_run_state, run_timers,
                 ui_timers, sleeping, ui_state, buffered_clicks, fan, led,
                 active, local_clicks, run_level, blink_n, blink_i, blink_ret,
                 hist>>

\* mutant: Short taken for Off
AfterClear_ShortIsOff(current) ==
  IF current <= RUN_SHORT THEN "rs_off" ELSE "rs_on"

\* if (current_run_state == RUN_OFF) ... else ...
AfterClear(current) == IF current = RUN_OFF THEN "rs_off" ELSE "rs_on"

\* desired_run_state = RUN_NO_STATE; if (current_run_state == RUN_OFF)
rs_clear ==
  /\ pc = "rs_clear"
  /\ desired_run_state' = RUN_NO_STATE
  /\ pc' = AfterClear(current_run_state)
  /\ UNCHANGED <<inactive_iterations, current_run_state, run_timers,
                 ui_timers, sleeping, ui_state, buffered_clicks, fan, led,
                 active, local_clicks, run_level, blink_n, blink_i, blink_ret,
                 hist>>

\* run_timers = 0; fan_off(); return false;
rs_off ==
  /\ pc = "rs_off"
  /\ run_timers' = 0
  /\ fan' = FALSE
  /\ active' = FALSE
  /\ pc' = "ui_read"
  /\ polled' = "off"
  /\ quiet' = FALSE
  /\ UNCHANGED <<inactive_iterations, current_run_state, desired_run_state,
                 ui_timers, sleeping, ui_state, buffered_clicks, led,
                 local_clicks, run_level, blink_n, blink_i, blink_ret,
                 presses, budget, n_read, acks, req, win_idle, idle_run,
                 woke>>

\* fan_on(); TCNT1 = 0;
rs_on ==
  /\ pc = "rs_on"
  /\ fan' = TRUE
  /\ pc' = "rs_timers"
  /\ UNCHANGED <<inactive_iterations, current_run_state, desired_run_state,
                 run_timers, ui_timers, sleeping, ui_state, buffered_clicks,
                 led, active, local_clicks, run_level, blink_n, blink_i,
                 blink_ret, hist>>

\* mutant: the level index taken from RUN_OFF instead of RUN_SHORT
RunTimersFor_FromOff(state) ==
  RUN_TIMERS_INIT + RUN_TIMERS_MULTIPLIER * (state - RUN_OFF)

\* run_timers = RUN_TIMERS_INIT + RUN_TIMERS_MULTIPLIER * (current - RUN_SHORT)
RunTimersFor(state) ==
  RUN_TIMERS_INIT + RUN_TIMERS_MULTIPLIER * (state - RUN_SHORT)

\* run_timers = ...; return true;
rs_timers ==
  /\ pc = "rs_timers"
  /\ run_timers' = RunTimersFor(current_run_state)
  /\ active' = TRUE
  /\ pc' = "ui_read"
  /\ polled' = "on"
  /\ quiet' = (buffered_clicks = 0)
  /\ UNCHANGED <<inactive_iterations, current_run_state, desired_run_state,
                 ui_timers, sleeping, ui_state, buffered_clicks, fan, led,
                 local_clicks, run_level, blink_n, blink_i, blink_ret,
                 presses, budget, n_read, acks, req, win_idle, idle_run,
                 woke>>

\* ---- ui_handler() -------------------------------------------------------
\* uint8_t local_clicks = buffered_clicks;
ui_read ==
  /\ pc = "ui_read"
  /\ local_clicks' = buffered_clicks
  /\ n_read' = presses
  /\ pc' = "ui_switch"
  /\ req' = NoReq
  /\ polled' = "none"
  /\ UNCHANGED <<prog, active, run_level, blink_n, blink_i, blink_ret,
                 presses, budget, acks, win_idle, quiet, idle_run, woke>>

\* mutant: the window opens only on a second press
UiBranch_SecondPress(state, clicks, timeout) ==
  CASE state = UI_OFF -> IF clicks > 1 THEN "ui_open" ELSE "ms"
    [] state = UI_INPUT -> IF timeout THEN "ui_close" ELSE "ms"
    [] state = UI_TIMEOUT -> "ui_resolve"

\* bool timeout = ui_timers == 0; switch (ui_state): where the switch goes
UiBranch(state, clicks, timeout) ==
  CASE state = UI_OFF -> IF clicks > 0 THEN "ui_open" ELSE "ms"
    [] state = UI_INPUT -> IF timeout THEN "ui_close" ELSE "ms"
    [] state = UI_TIMEOUT -> "ui_resolve"

\* the branches that only test return from here (active stays as
\* run_state_handler reported it)
ui_switch ==
  /\ pc = "ui_switch"
  /\ LET timeout == (ui_timers = 0)
         next == UiBranch(ui_state, local_clicks, timeout)
     IN /\ pc' = next
        /\ local_clicks' = IF next = "ms" THEN 0 ELSE local_clicks
        /\ n_read' = IF next = "ms" THEN 0 ELSE n_read
  /\ UNCHANGED <<prog, active, run_level, blink_n, blink_i, blink_ret,
                 presses, budget, acks, req, win_idle, quiet, idle_run,
                 polled, woke>>

\* case UI_OFF with clicks: ui_state = UI_INPUT; led_on(); TCNT0 = 0;
\* ui_timers = TIMER_UI_COUNT; active = true;
ui_open ==
  /\ pc = "ui_open"
  /\ ui_state' = UI_INPUT
  /\ led' = TRUE
  /\ ui_timers' = TIMER_UI_COUNT
  /\ active' = TRUE
  /\ pc' = "ms"
  /\ local_clicks' = 0
  /\ n_read' = 0
  /\ win_idle' = (current_run_state = RUN_OFF /\ run_timers = 0
                  /\ desired_run_state = RUN_NO_STATE)
  /\ UNCHANGED <<inactive_iterations, current_run_state, desired_run_state,
                 run_timers, sleeping, buffered_clicks, fan, run_level,
                 blink_n, blink_i, blink_ret, presses, budget, acks, req,
                 quiet, idle_run, polled, woke>>

\* case UI_INPUT on timeout: ui_state = UI_TIMEOUT; ui_timers = -1;
\* active = true;
ui_close ==
  /\ pc = "ui_close"
  /\ ui_state' = UI_TIMEOUT
  /\ ui_timers' = -1
  /\ active' = TRUE
  /\ pc' = "ms"
  /\ local_clicks' = 0
  /\ n_read' = 0
  /\ UNCHANGED <<inactive_iterations, current_run_state, desired_run_state,
                 run_timers, sleeping, buffered_clicks, fan, led, run_level,
                 blink_n, blink_i, blink_ret, presses, budget, acks, req,
                 win_idle, quiet, idle_run, polled, woke>>

\* run_level = local_clicks - 1, capped at RUN_LEVELS
RunLevel(clicks) ==
  IF clicks - 1 >= RUN_LEVELS THEN RUN_LEVELS ELSE clicks - 1

\* mutant: a window without extra presses leaves desired_run_state alone
TimeoutRequest_NoOff(clicks, desired) ==
  IF clicks > 1
  THEN RUN_SHORT + ((IF clicks - 1 >= RUN_LEVELS THEN RUN_LEVELS
                     ELSE clicks - 1) - 1)
  ELSE desired

\* the request the Timeout case writes: an on-state for run_level > 0 (else
\* desired_run_state keeps its value), RUN_OFF when there were no inputs
TimeoutRequest(clicks, desired) ==
  IF clicks > 1
  THEN IF RunLevel(clicks) > 0
       THEN RUN_SHORT + (RunLevel(clicks) - 1) ELSE desired
  ELSE RUN_OFF

\* case UI_TIMEOUT: led_off(); then either compute run_level, write the
\* request and call blink(run_level) (active = true follows the blink and
\* is set here: it is a local), or write the Off request
ui_resolve ==
  /\ pc = "ui_resolve"
  /\ led' = FALSE
  /\ acks' = 0
  /\ desired_run_state' = TimeoutRequest(local_clicks, desired_run_state)
  /\ IF local_clicks > 1
     THEN /\ run_level' = RunLevel(local_clicks)
          /\ active' = TRUE
          /\ blink_n' = run_level'
          /\ blink_i' = 0
          /\ blink_ret' = "ui_reset"
          /\ pc' = "blink"
     ELSE /\ pc' = "ui_reset"
          /\ UNCHANGED <<run_level, active, blink_n, blink_i, blink_ret>>
  /\ req' = [lvl |-> desired_run_state', n |-> n_read,
             cur |-> current_run_state, run |-> run_timers > 0, late |-> 0]
  /\ UNCHANGED <<inactive_iterations, current_run_state, run_timers,
                 ui_timers, sleeping, ui_state, buffered_clicks, fan,
                 local_clicks, presses, budget, n_read, win_idle, quiet,
                 idle_run, polled, woke>>

\* mutant: the presses counted since the read are kept
ResetClicks_KeepLate(clicks, read) == (clicks - read) % UINT8_RANGE

\* buffered_clicks = 0, whatever was counted since local_clicks was read
ResetClicks(clicks, read) == 0

\* ui_state = UI_OFF; buffered_clicks = 0; return active;
ui_reset ==
  /\ pc = "ui_reset"
  /\ ui_state' = UI_OFF
  /\ buffered_clicks' = ResetClicks(buffered_clicks, local_clicks)
  /\ req' = [req EXCEPT !.late = presses - n_read]
  /\ presses' = 0
  /\ budget' = MaxClicks
  /\ pc' = "ms"
  /\ local_clicks' = 0
  /\ run_level' = 0
  /\ n_read' = 0
  /\ acks' = 0
  /\ win_idle' = FALSE
  /\ UNCHANGED <<inactive_iterations, current_run_state, desired_run_state,
                 run_timers, ui_timers, sleeping, fan, led, active, blink_n,
                 blink_i, blink_ret, quiet, idle_run, polled, woke>>

\* ---- maybe_sleep(active), with sleep() inlined --------------------------
\* inactive_iterations++ on a uint8_t
Incremented(n) == (n + 1) % UINT8_RANGE

\* if (inactive_iterations > IDLE_ITERATIONS), on the incremented counter
SleepDue(n) == n > IDLE_ITERATIONS

\* mutant: the counter is not zeroed by an active iteration
IdleCount_NoReset(act, n) == IF act THEN n ELSE (n + 1) % UINT8_RANGE

\* if (active) inactive_iterations = 0; else inactive_iterations++;
IdleCount(act, n) == IF act THEN 0 ELSE Incremented(n)

maybe_sleep ==
  /\ pc \in {"ms", "sl_flag", "sl_wake"}
  /\ CASE pc = "ms" /\ active ->
            \* inactive_iterations = 0; return;
            /\ inactive_iterations' = IdleCount(active, inactive_iterations)
            /\ idle_run' = 0
            /\ pc' = "rs_test"
            /\ UNCHANGED sleeping
       [] pc = "ms" /\ ~active ->
            \* inactive_iterations++; if (inactive_iterations > ...) sleep();
            /\ inactive_iterations' = IdleCount(active, inactive_iterations)
            /\ idle_run' = Min(idle_run + 1, IdleCap)
            /\ pc' = IF SleepDue(inactive_iterations')
                     THEN "sl_flag" ELSE "rs_test"
            /\ UNCHANGED sleeping
       [] pc = "sl_flag" ->
            \* MCUCR = power-down, low-level INT0; sleeping = true;
            /\ sleeping' = TRUE
            /\ pc' = "sl_mode"
            /\ UNCHANGED <<inactive_iterations, idle_run>>
       [] pc = "sl_wake" ->
            \* MCUCR |= _BV(ISC01); sleeping = false; and, back in
            \* maybe_sleep, inactive_iterations = 0;
            /\ sleeping' = FALSE
            /\ inactive_iterations' = 0
            /\ idle_run' = 0
            /\ pc' = "rs_test"
  /\ active' = IF pc' = "rs_test" THEN FALSE ELSE active
  /\ UNCHANGED <<current_run_state, desired_run_state, run_timers, ui_timers,
                 ui_state, buffered_clicks, fan, led, local_clicks, run_level,
                 blink_n, blink_i, blink_ret, presses, budget, n_read, acks,
                 req, win_idle, quiet, polled, woke>>

\* ---- the program --------------------------------------------------------
Main ==
  \/ blink_pulse \/ blink_dark \/ blink_return
  \/ rs_test \/ rs_copy \/ rs_clear \/ rs_off \/ rs_on \/ rs_timers
  \/ ui_read \/ ui_switch \/ ui_open \/ ui_close \/ ui_resolve \/ ui_reset
  \/ maybe_sleep

Next == Main \/ TIMER1_OVF \/ TIMER0_OVF \/ INT0

Spec == Init /\ [][Next]_vars
SpecBurst == InitBurst /\ [][Next]_vars
SpecWake == InitAsleep /\ [][Next]_vars

\* liveness checks run under the scheduling the hardware gives: the CPU keeps
\* executing the main thread, and a running timer keeps overflowing
FairSpec == Spec /\ WF_vars(Main) /\ WF_vars(TIMER0_OVF) /\ WF_vars(TIMER1_OVF)

\* ---- properties ---------------------------------------------------------
\* a step of the main thread (an interrupt handler leaves pc alone, except
\* the press that ends sleep_mode())
MainStep == pc' # pc /\ pc # "sl_mode"

\* the run level the specification assigns to n presses in one window
LevelOf(n) == Min(n - 1, 3)

\* ui_handler handled a Timeout and the next poll has not returned yet
ReqMade == req.cur # RUN_NO_STATE

\* the request ui_handler wrote came out of a window of an idle system
ReqFromIdle == req.cur = RUN_OFF /\ ~req.run

\* C1: for every number N >= 1 of presses counted in one input window, the
\* Timeout step of ui_handler resolves run_level = min(N - 1, 3) and writes
\* desired_run_state = Short + (run_level - 1) when N > 1, and writes Off
\* when N <= 1.
C1_RunLevelOfPresses ==
  [][ (pc = "ui_resolve" /\ MainStep) =>
        IF n_read > 1
        THEN /\ run_level' = LevelOf(n_read)
             /\ desired_run_state' = RUN_SHORT + (run_level' - 1)
        ELSE desired_run_state' = RUN_OFF ]_vars

\* C2: when a window of an idle system closes with run level k in 1..3, the
\* request stays in desired_run_state until the next run_state_handler poll,
\* which copies it into current_run_state, turns the fan on and sets
\* run_timers = RUN_TIMERS_INIT + RUN_TIMERS_MULTIPLIER * (k - 1).
C2_Pending ==
  (req.n > 1 /\ ReqFromIdle) =>
    LET k == LevelOf(req.n) IN
    /\ k \in 1..3
    /\ req.lvl = RUN_SHORT + (k - 1)
    /\ CASE pc \in {"blink", "blink_lit", "ui_reset", "ms", "rs_test",
                    "rs_copy"} ->
              /\ desired_run_state = req.lvl
              /\ current_run_state = RUN_OFF /\ run_timers = 0 /\ ~fan
         [] pc = "rs_clear" ->
              /\ current_run_state = req.lvl /\ run_timers = 0 /\ ~fan
         [] pc = "rs_on" ->
              /\ current_run_state = req.lvl /\ run_timers = 0 /\ ~fan
         [] pc = "rs_timers" ->
              /\ current_run_state = req.lvl /\ run_timers = 0 /\ fan
         [] pc = "ui_read" ->
              /\ current_run_state = req.lvl /\ fan /\ polled = "on"
         [] OTHER -> FALSE

C2_Applied ==
  (pc = "rs_timers" /\ MainStep /\ req.n > 1 /\ ReqFromIdle) =>
    LET k == LevelOf(req.n) IN
    /\ current_run_state' = RUN_SHORT + (k - 1)
    /\ fan'
    /\ run_timers' = RUN_TIMERS_INIT + RUN_TIMERS_MULTIPLIER * (k - 1)

\* C2: the request of an idle system's window is held until the next poll
\* (C2_Pending) and that poll applies it with the level's run_timers
\* (C2_Applied).
C2_IdleRequestApplied == [] C2_Pending /\ [][C2_Applied]_vars

\* one press plus two more from idle: the poll has just set the fan running
\* Med with RUN_TIMERS_INIT + RUN_TIMERS_MULTIPLIER timer periods
C2_Witness ==
  /\ pc = "ui_read" /\ polled = "on"
  /\ req.n = 3 /\ req.lvl = RUN_MED /\ ReqFromIdle
  /\ current_run_state = RUN_MED /\ fan
  /\ run_timers = RUN_TIMERS_INIT + RUN_TIMERS_MULTIPLIER

\* C3: once run_state_handler has started the fan (no press pending, none
\* counted since), desired_run_state stays NoState while run_timers > 0,
\* is Off from the overflow that brings run_timers to zero until the next
\* poll copies it and turns the fan off, and ui_state stays UI_OFF.
C3_RunExpiry ==
  quiet =>
    /\ ui_state = UI_OFF
    /\ fan
    /\ IF run_timers > 0
       THEN desired_run_state = RUN_NO_STATE /\ current_run_state \in OnStates
       ELSE CASE pc = "rs_clear" ->
                   current_run_state = RUN_OFF /\ desired_run_state = RUN_OFF
              [] pc = "rs_off" ->
                   current_run_state = RUN_OFF
              [] OTHER ->
                   desired_run_state = RUN_OFF /\ current_run_state \in OnStates

\* C4: more than IDLE_ITERATIONS consecutive iterations in which both
\* handlers report inactive make maybe_sleep call sleep(): the run of
\* inactive iterations never exceeds IDLE_ITERATIONS outside sleep().
C4_SleepsWhenIdle ==
  idle_run > IDLE_ITERATIONS => pc \in {"sl_flag", "sl_mode", "sl_wake"}

\* C5: maybe_sleep zeroes inactive_iterations in every iteration that
\* reported active, so the counter is the number of consecutive inactive
\* iterations (modulo its width); and the main thread is inside sleep() only
\* after more than IDLE_ITERATIONS consecutive inactive iterations.
C5_Counter ==
  /\ idle_run < IdleCap => inactive_iterations = idle_run % UINT8_RANGE
  /\ pc \in {"sl_flag", "sl_mode", "sl_wake"} => idle_run > IDLE_ITERATIONS

C5_Reset ==
  (pc = "ms" /\ MainStep /\ active) =>
     inactive_iterations' = 0 /\ pc' = "rs_test"

\* C5: the counter follows the run of inactive iterations (C5_Counter) and
\* every active iteration zeroes it (C5_Reset).
C5_ActivityResetsCounter == [] C5_Counter /\ [][C5_Reset]_vars

\* an iteration that reported active passes a non-zero counter to maybe_sleep
C5_Witness == pc = "ms" /\ active /\ inactive_iterations > 0

\* C6: a window that times out with one counted press makes ui_handler
\* request Off; the request stays until the next run_state_handler poll,
\* which sets current_run_state = Off, zeroes run_timers and turns the fan
\* off, also when the fan was running Long with run_timers > 0.
C6_OffRequestStopsFan ==
  (ReqMade /\ req.n = 1) =>
    /\ req.lvl = RUN_OFF
    /\ CASE pc \in {"ui_reset", "ms", "rs_test", "rs_copy"} ->
              desired_run_state = RUN_OFF
         [] pc = "rs_clear" ->
              current_run_state = RUN_OFF
         [] pc = "rs_off" ->
              current_run_state = RUN_OFF
         [] pc = "ui_read" ->
              /\ polled = "off"
              /\ current_run_state = RUN_OFF /\ run_timers = 0 /\ ~fan
         [] OTHER -> FALSE

\* the poll is turning off a fan that ran Long and still has timer periods
\* left: the run ends before its natural expiry
C6_Witness ==
  /\ pc = "rs_off" /\ req.lvl = RUN_OFF /\ req.n = 1
  /\ req.cur = RUN_LONG /\ req.run /\ run_timers > 0 /\ fan

\* C7: from idle a single counted press makes the next ui_handler poll turn
\* the LED on, start ui_timers and enter UI_INPUT; with no further press the
\* fan stays off while the window is open, the timed-out window passes
\* through UI_TIMEOUT, the LED goes off, Off is requested, and the system
\* is idle again: ui_state Off, buffered_clicks 0, ui_timers -1, fan off.
C7_Window ==
  /\ (win_idle /\ presses = 1 /\ ui_state = UI_INPUT) =>
        /\ ~fan /\ current_run_state = RUN_OFF /\ run_timers = 0
        /\ desired_run_state = RUN_NO_STATE
        /\ led /\ ui_timers \in {0, TIMER_UI_COUNT}
  /\ (win_idle /\ presses = 1 /\ ui_state = UI_TIMEOUT) =>
        /\ ~fan /\ current_run_state = RUN_OFF /\ run_timers = 0
        /\ ui_timers = -1
        /\ pc = "ui_reset" => (~led /\ desired_run_state = RUN_OFF)
  /\ (req.n = 1 /\ ReqFromIdle) =>
        /\ req.lvl = RUN_OFF
        /\ ~fan /\ ~led /\ ui_timers = -1
        /\ current_run_state = RUN_OFF /\ run_timers = 0
        /\ pc # "ui_reset" =>
              (ui_state = UI_OFF /\ (presses = 0 => buffered_clicks = 0))

C7_Steps ==
  /\ (pc = "ui_switch" /\ MainStep /\ ui_state = UI_OFF /\ local_clicks > 0)
        => pc' = "ui_open"
  /\ (pc = "ui_open" /\ MainStep)
        => ui_state' = UI_INPUT /\ led' /\ ui_timers' = TIMER_UI_COUNT
  /\ (pc = "ui_switch" /\ MainStep /\ ui_state = UI_INPUT /\ ui_timers = 0)
        => pc' = "ui_close"
  /\ (pc = "ui_close" /\ MainStep)
        => ui_state' = UI_TIMEOUT /\ ui_timers' = -1
  /\ (pc = "ui_switch" /\ MainStep /\ ui_state = UI_TIMEOUT)
        => pc' = "ui_resolve"
  /\ (pc = "ui_reset" /\ MainStep)
        => ui_state' = UI_OFF /\ buffered_clicks' = 0

\* an open window is closed again (the input timer keeps overflowing)
C7_Closes ==
  (ui_state = UI_INPUT) ~>
     (ui_state = UI_OFF /\ buffered_clicks = 0 /\ ui_timers = -1 /\ ~led)

\* C7: the single-press window of an idle system keeps the fan off
\* (C7_Window), moves Off -> Input -> Timeout -> Off (C7_Steps) and is
\* closed again (C7_Closes).
C7_SinglePressWindow == [] C7_Window /\ [][C7_Steps]_vars /\ C7_Closes

\* the poll that follows a single-press window of an idle system has
\* returned: everything is idle again
C7_Witness ==
  /\ pc = "ui_read" /\ polled = "off"
  /\ req.lvl = RUN_OFF /\ req.n = 1 /\ ReqFromIdle
  /\ ui_state = UI_OFF /\ buffered_clicks = 0 /\ ui_timers = -1
  /\ ~fan /\ ~led /\ current_run_state = RUN_OFF

C9_Poll ==
  (pc = "rs_test" /\ MainStep /\ desired_run_state = RUN_NO_STATE) =>
    /\ UNCHANGED <<current_run_state, run_timers, desired_run_state, fan>>
    /\ active' = (current_run_state \in OnStates)
    /\ pc' = "ui_read"

\* C9: every poll without request is a no-op that reports the fan state.
C9_NoRequestNoOp == [][C9_Poll]_vars

\* a poll without request has just returned active for a running fan
C9_Witness ==
  /\ pc = "ui_read" /\ polled = "noop" /\ active
  /\ current_run_state \in OnStates /\ fan /\ run_timers > 0

\* C10: the Timeout handling emits as many acknowledgment blinks as the run
\* level of the presses counted in the window (2, 3, 4 or more presses give
\* 1, 2, 3 blinks); at most one press gives no blink and requests Off.
C10_AckBlinks ==
  pc = "ui_reset" =>
    /\ acks = (IF n_read > 1 THEN LevelOf(n_read) ELSE 0)
    /\ n_read <= 1 => desired_run_state = RUN_OFF

\* the main thread is between ui_handler's write of desired_run_state and
\* run_state_handler's copy of it
ReqPending ==
  pc \in {"blink", "blink_lit", "ui_reset", "ms", "rs_test", "rs_copy"}

\* C11: a run level written to desired_run_state by ui_handler at Timeout
\* stays in desired_run_state until the next run_state_handler poll copies
\* it, and that poll applies it to current_run_state: no timer-1 Off request
\* replaces it, whatever current_run_state and run_timers were at the write.
C11_RunLevelApplied ==
  (ReqMade /\ req.n > 1) =>
    /\ ReqPending => desired_run_state = req.lvl
    /\ pc = "rs_clear" => current_run_state = req.lvl

\* C12: whenever run_state_handler resets desired_run_state to NoState, the
\* value it overwrites is the value it copied into current_run_state.
C12_ClearsWhatItCopied ==
  pc = "rs_clear" => desired_run_state = current_run_state

\* C13: current_run_state is never NoState, wherever the timer-1 handler
\* interleaves with run_state_handler's test and copy of desired_run_state.
C13_CurrentNeverNoState ==
  current_run_state # RUN_NO_STATE

\* the timer-1 handler replaced a pending run level by Off before the copy,
\* and the copy has applied Off
C13_Witness ==
  /\ pc = "rs_clear" /\ ReqMade /\ req.lvl \in OnStates
  /\ current_run_state = RUN_OFF /\ run_timers = 0

\* the request that the Timeout handling makes for a count of n presses
\* read from the 8-bit buffered_clicks
RequestOf(n) ==
  LET c == n % UINT8_RANGE
  IN  IF c > 1 THEN RUN_SHORT + (Min(c - 1, RUN_LEVELS) - 1) ELSE RUN_OFF

\* C14: the request written in a Timeout iteration is the one for the count
\* read at the start of that iteration, whatever is counted afterwards.
C14_Request ==
  (ui_state = UI_TIMEOUT /\ pc \in {"blink", "blink_lit", "ui_reset"}) =>
    /\ req.n = n_read
    /\ req.lvl = RequestOf(n_read)

\* C14: the reset at the end of the Timeout iteration zeroes buffered_clicks
\* and closes the window, whatever was counted since the read.
C14_Reset ==
  (pc = "ui_reset" /\ MainStep) =>
    buffered_clicks' = 0 /\ ui_state' = UI_OFF

\* C14: after presses were zeroed unread, no window is open unless a later
\* press has been counted and read.
C14_NoWindow ==
  /\ (req.late > 0 /\ presses = 0) => buffered_clicks = 0
  /\ pc = "ui_open" => n_read > 0

\* C14: a press counted after ui_handler has read buffered_clicks in its
\* Timeout iteration and before it resets buffered_clicks is lost: it does
\* not change the request of that iteration and opens no window afterwards.
C14_LatePressLost == [](C14_Request /\ C14_NoWindow) /\ [][C14_Reset]_vars

\* a window of one press has requested Off, presses counted during the
\* Timeout handling were zeroed, and the next ui_handler poll is about to
\* read an empty buffered_clicks
C14_Witness ==
  /\ pc = "ui_read" /\ ui_state = UI_OFF /\ buffered_clicks = 0
  /\ req.late > 0 /\ req.n = 1 /\ req.lvl = RUN_OFF /\ presses = 0

\* a step of an interrupt handler: the main thread stays where it is
IsrStep == pc' = pc

\* C15: a step of an interrupt handler changes at most one of
\* buffered_clicks (button), ui_timers (timer 0) and the pair run_timers,
\* desired_run_state (timer 1), writes nothing but Off to
\* desired_run_state, and changes nothing else.
C15_Frame ==
  IsrStep =>
    LET button == buffered_clicks' # buffered_clicks
        timer0 == ui_timers' # ui_timers
        timer1 == <<run_timers, desired_run_state>>' #
                    <<run_timers, desired_run_state>>
    IN  /\ UNCHANGED <<fan, led, ui_state, current_run_state,
                       inactive_iterations, sleeping>>
        /\ ~(button /\ timer0) /\ ~(button /\ timer1) /\ ~(timer0 /\ timer1)
        /\ desired_run_state' # desired_run_state =>
             desired_run_state' = RUN_OFF

\* C15: no interrupt handler changes the fan, the LED, ui_state or
\* current_run_state: the button handler changes nothing but
\* buffered_clicks, the timer-0 handler nothing but ui_timers, the timer-1
\* handler nothing but run_timers and desired_run_state, to which it only
\* ever writes Off.
C15_HandlersFrame == [][C15_Frame]_vars

\* all three handlers have acted while the fan runs and the window is open:
\* timer 1 has written Off, timer 0 has counted down, the button has counted
C15_Witness ==
  /\ fan /\ current_run_state \in OnStates /\ ui_state = UI_INPUT /\ led
  /\ run_timers = 0 /\ desired_run_state = RUN_OFF
  /\ ui_timers = 0 /\ buffered_clicks > 1

\* C16: ui_timers is one of -1, 0, ..., TIMER_UI_COUNT, and where the main
\* loop starts an iteration it differs from -1 exactly when ui_state is
\* UI_INPUT.
C16_Range ==
  /\ ui_timers \in -1 .. TIMER_UI_COUNT
  /\ pc = "rs_test" => (ui_timers # -1 <=> ui_state = UI_INPUT)

\* C16: an interrupt handler leaves a ui_timers of -1 or 0 as it is.
C16_Parked ==
  (IsrStep /\ ui_timers \in {-1, 0}) => ui_timers' = ui_timers

\* C16: ui_timers only takes the values -1, 0, ..., TIMER_UI_COUNT; the
\* timer-0 handler never changes it when it is -1 or 0; at every main-loop
\* iteration boundary ui_timers # -1 exactly when ui_state = UI_INPUT.
C16_UiTimers == []C16_Range /\ [][C16_Parked]_vars

\* an iteration starts in UI_INPUT with the input timer expired
C16_Witness ==
  pc = "rs_test" /\ ui_state = UI_INPUT /\ ui_timers = 0

\* C17: where the main loop starts an iteration, the fan output is on
\* exactly when current_run_state is an on-state and off exactly when
\* current_run_state is Off.
C17_FanFollowsState ==
  pc = "rs_test" =>
    /\ fan <=> current_run_state \in OnStates
    /\ ~fan <=> current_run_state = RUN_OFF

\* an iteration starts with the fan running at Medium
C17_Witness ==
  pc = "rs_test" /\ fan /\ current_run_state = RUN_MED /\ run_timers > 0

\* C18: where the main loop starts an iteration with current_run_state an
\* on-state, run_timers is positive or a request is pending in
\* desired_run_state.
C18_NotStuck ==
  (pc = "rs_test" /\ current_run_state \in OnStates) =>
    (run_timers > 0 \/ desired_run_state # RUN_NO_STATE)

\* C18: unless presses keep being counted for ever, a running fan is
\* eventually turned off.
C18_Stops == ([]<><<INT0>>_vars) \/ (fan ~> ~fan)

\* C18: the fan can never be stuck on: at every iteration boundary with
\* current_run_state an on-state, run_timers > 0 or desired_run_state is
\* not NoState; hence with timer-1 overflows continuing and no further
\* presses a running fan is eventually turned off.
C18_FanNeverStuck == []C18_NotStuck /\ C18_Stops

\* an iteration starts with the fan on, run_timers expired and the
\* timer-1 handler's Off request pending
C18_Witness ==
  /\ pc = "rs_test" /\ fan /\ current_run_state \in OnStates
  /\ run_timers = 0 /\ desired_run_state = RUN_OFF

\* sleep() is due: the main thread is inside sleep(), or it enters
\* maybe_sleep with an inactive iteration that makes the run of consecutive
\* inactive iterations exceed IDLE_ITERATIONS, which is where maybe_sleep
\* is written to invoke it
SleepInvoked ==
  \/ pc \in {"sl_flag", "sl_mode", "sl_wake"}
  \/ pc = "ms" /\ ~active /\ idle_run >= IDLE_ITERATIONS

====
